---- MODULE Spec2Model ----
(***************************************************************************)
(* Model of ppp-demo/generate_car_sales_data.py: the calendar utility,     *)
(* the per-record sampler, the month batch and the driver loop that        *)
(* writes one file per (year, month) and keeps the running counters.       *)
(*                                                                         *)
(* Money is kept in cents, multipliers in hundredths, rates in             *)
(* thousandths.  Python floats are IEEE-754 doubles: the record count      *)
(* int(BASE * multiplier) is computed on 53-bit significands held as limb   *)
(* sequences (least significant limb first), because 1.15 and 0.8 are not *)
(* representable and the truncation sees the representation error.         *)
(***************************************************************************)
EXTENDS Integers, Sequences, FiniteSets, TLC

\* ------------------------------------------------------------------------
\* Program constants (lines 12-31, 177-178)
\* ------------------------------------------------------------------------

\* MONTHLY_MULTIPLIERS, the decimal literals in hundredths, month 1..12.
MONTHLY_MULTIPLIERS == <<75, 80, 110, 115, 125, 130, 125, 110, 95, 100, 105, 120>>

BASE_RECORDS_PER_MONTH == 100000

START_YEAR == 2015

END_YEAR == 2024

\* customer_id_offset = 1000000 and sale_id_offset = 20000000 before the loop.
CUSTOMER_ID_START == 1000000

SALE_ID_START == 20000000

\* The minimum field widths of the formats :07d and :08d.
CUST_WIDTH == 7

SALE_WIDTH == 8

\* ------------------------------------------------------------------------
\* IEEE-754 double arithmetic.  A natural number wider than a machine
\* integer is a sequence of 13-bit limbs, least significant first; a
\* double is [m |-> limbs of the significand, e |-> exponent], value m * 2^e.
\* ------------------------------------------------------------------------

\* Significand width of a double.
MANT_BITS == 53

LIMB_BITS == 13

LIMB == 2 ^ LIMB_BITS

\* Limbs of scale used while converting a decimal literal to the nearest double.
LITERAL_LIMBS == 5

RECURSIVE NatLimbs(_)
NatLimbs(n) == IF n = 0 THEN <<>> ELSE <<n % LIMB>> \o NatLimbs(n \div LIMB)

RECURSIVE ToNat(_)
ToNat(l) == IF l = <<>> THEN 0 ELSE l[1] + LIMB * ToNat(Tail(l))

RECURSIVE Strip(_)
Strip(l) ==
    IF l = <<>> \/ l[Len(l)] # 0 THEN l
    ELSE Strip(SubSeq(l, 1, Len(l) - 1))

RECURSIVE BitLen(_)
BitLen(n) == IF n = 0 THEN 0 ELSE 1 + BitLen(n \div 2)

\* Number of significant bits of a stripped limb sequence.
BitLength(l) ==
    IF l = <<>> THEN 0 ELSE LIMB_BITS * (Len(l) - 1) + BitLen(l[Len(l)])

LimbAt(l, i) == IF i \in 1..Len(l) THEN l[i] ELSE 0

\* Bit i (bit 0 is the least significant) of l.
BitAt(l, i) == (LimbAt(l, i \div LIMB_BITS + 1) \div (2 ^ (i % LIMB_BITS))) % 2

\* Whether any of the d low bits of l is set.
LowNonzero(l, d) == \E i \in 0..(d - 1) : BitAt(l, i) = 1

\* floor(l / 2^d)
ShiftRight(l, d) ==
    LET a == d \div LIMB_BITS
        c == d % LIMB_BITS
    IN  Strip([i \in 1..(Len(l) - a) |->
                 (LimbAt(l, i + a) \div (2 ^ c))
                 + (LimbAt(l, i + a + 1) % (2 ^ c)) * (2 ^ (LIMB_BITS - c))])

RECURSIVE Inc(_)
Inc(l) ==
    IF l = <<>> THEN <<1>>
    ELSE IF l[1] + 1 < LIMB THEN <<l[1] + 1>> \o Tail(l)
    ELSE <<0>> \o Inc(Tail(l))

\* l * b + carry for a machine integer b below 2^17.
RECURSIVE MulSmall(_, _, _)
MulSmall(l, b, carry) ==
    IF l = <<>> THEN NatLimbs(carry)
    ELSE LET t == l[1] * b + carry
         IN  <<t % LIMB>> \o MulSmall(Tail(l), b, t \div LIMB)

\* Long division of num (limbs, most significant first) by d < 2^17.
RECURSIVE LongDiv(_, _, _, _)
LongDiv(num, d, i, acc) ==
    IF i > Len(num) THEN acc
    ELSE LET r2 == LIMB * acc.r + num[i]
         IN  LongDiv(num, d, i + 1, [q |-> <<r2 \div d>> \o acc.q, r |-> r2 % d])

\* Round the stripped limbs l of L bits, times 2^e (sticky: nonzero digits
\* below l), to a 53-bit significand, round-half-to-even.
RoundBits(l, L, e, sticky) ==
    IF L <= MANT_BITS THEN [m |-> l, e |-> e]
    ELSE LET d     == L - MANT_BITS
             kept  == ShiftRight(l, d)
             guard == BitAt(l, d - 1)
             rest  == sticky \/ LowNonzero(l, d - 1)
             up    == guard = 1 /\ (rest \/ BitAt(l, d) = 1)
         IN  [m |-> IF up THEN Inc(kept) ELSE kept, e |-> e + d]

\* The same for any limbs l0.  (The limbs are bound as a value, so that
\* they are computed once wherever the operator is evaluated.)
Round53(l0, e, sticky) ==
    CHOOSE x \in {RoundBits(l, BitLength(l), e, sticky) : l \in {Strip(l0)}} : TRUE

\* The double nearest to the decimal literal h/100 (0 < h < 2^13).
DoubleOfHundredths(h) ==
    LET num == <<h>> \o [i \in 1..LITERAL_LIMBS |-> 0]
        qr  == LongDiv(num, 100, 1, [q |-> <<>>, r |-> 0])
    IN  Round53(qr.q, 0 - LIMB_BITS * LITERAL_LIMBS, qr.r # 0)

\* b * x in double arithmetic (b an integer, exactly representable).
MulDouble(b, x) == Round53(MulSmall(x.m, b, 0), x.e, FALSE)

\* int(x): truncation toward zero of a non-negative double below 2^31.
TruncDouble(x) ==
    IF x.e >= 0 THEN ToNat(x.m) * (2 ^ x.e)
    ELSE ToNat(ShiftRight(x.m, 0 - x.e))

\* round(x) of Python 3 on a non-negative double: nearest integer, ties to even.
RoundDouble(x) ==
    IF x.e >= 0 THEN TruncDouble(x)
    ELSE LET f  == 0 - x.e
             fl == TruncDouble(x)
         IN  IF BitAt(x.m, f - 1) = 1 /\ (LowNonzero(x.m, f - 1) \/ fl % 2 = 1)
             THEN fl + 1 ELSE fl

\* ------------------------------------------------------------------------
\* Calendar utility
\* ------------------------------------------------------------------------

\* Variant: the leap-year test without the 400-year rule.
get_days_in_month_no_400(y, m) ==
    IF m \in {1, 3, 5, 7, 8, 10, 12} THEN 31
    ELSE IF m \in {4, 6, 9, 11} THEN 30
    ELSE IF y % 4 = 0 /\ y % 100 # 0 THEN 29
    ELSE 28

get_days_in_month(y, m) ==
    IF m \in {1, 3, 5, 7, 8, 10, 12} THEN 31
    ELSE IF m \in {4, 6, 9, 11} THEN 30
    ELSE IF y % 4 = 0 /\ (y % 100 # 0 \/ y % 400 = 0) THEN 29
    ELSE 28

\* ------------------------------------------------------------------------
\* Formatting: f'{n:0Wd}', strftime('%Y-%m-%d'), the output file name
\* ------------------------------------------------------------------------

\* The decimal digits of n >= 0, most significant first.
RECURSIVE Digits(_)
Digits(n) == IF n < 10 THEN <<n>> ELSE Append(Digits(n \div 10), n % 10)

\* f'{n:0Wd}': the digits of n, left-padded with zeros to AT LEAST width W.
FormatInt(n, width) ==
    LET d == Digits(n)
    IN  IF Len(d) >= width THEN d ELSE [i \in 1..(width - Len(d)) |-> 0] \o d

\* The number a digit string denotes.
RECURSIVE ParseInt(_)
ParseInt(d) ==
    IF d = <<>> THEN 0 ELSE 10 * ParseInt(SubSeq(d, 1, Len(d) - 1)) + d[Len(d)]

\* The character '-' of a date string; it sorts before every digit.
DASH == 0 - 1

\* sale_date.strftime('%Y-%m-%d') as a string of digits and dashes.
FormatDate(y, m, d) ==
    FormatInt(y, 4) \o <<DASH>> \o FormatInt(m, 2) \o <<DASH>> \o FormatInt(d, 2)

\* Variant: positions counted from 1.
FormatCustomerIdFromOne(customer_id_offset, i) ==
    [prefix |-> "CUST", digits |-> FormatInt(customer_id_offset + i + 1, CUST_WIDTH)]

\* f'CUST{customer_id_offset + i:07d}'
FormatCustomerId(customer_id_offset, i) ==
    [prefix |-> "CUST", digits |-> FormatInt(customer_id_offset + i, CUST_WIDTH)]

\* f'SALE{sale_id_offset + i:08d}'
FormatSaleId(sale_id_offset, i) ==
    [prefix |-> "SALE", digits |-> FormatInt(sale_id_offset + i, SALE_WIDTH)]

\* f"{OUTPUT_FOLDER}/sales_{year}_{month:02d}.csv"
OutputFilename(y, m) == [year |-> Digits(y), month |-> FormatInt(m, 2)]

\* String comparison s <= t (lexicographic, a proper prefix first).
RECURSIVE StrLeq(_, _)
StrLeq(s, t) ==
    IF s = <<>> THEN TRUE
    ELSE IF t = <<>> THEN FALSE
    ELSE IF s[1] # t[1] THEN s[1] < t[1]
    ELSE StrLeq(Tail(s), Tail(t))

\* ------------------------------------------------------------------------
\* Reference data and the per-record sampler (generate_month_data)
\* ------------------------------------------------------------------------

\* base_price of the 24 entries of car_inventory, in dollars.
car_inventory ==
    << 28000, 32000, 22000, 29000, 33000, 24000, 42000, 38000,
       30000, 40000, 29000, 26000, 45000, 52000, 45000, 65000,
       48000, 62000, 27000, 31000, 26500, 29500, 30000, 23500 >>

\* price_variation is held in millionths, commission_rate in units of 1e-5.
U_SCALE == 1000000

RATE_SCALE == 100000

\* random.uniform(-0.05, 0.15) and random.uniform(0.02, 0.05): the end points.
PRICE_VARIATION_LO == 0 - 50000

PRICE_VARIATION_HI == 150000

COMMISSION_RATE_LO == 2000

COMMISSION_RATE_HI == 5000

\* round(num / d) for num in limbs.  The quotient is exact decimal arithmetic;
\* at an exact half the double the program rounds lies on either side of it,
\* so the direction is an input (tie_up).
RoundDiv(num, d, tie_up) ==
    LET qr == LongDiv([i \in 1..Len(num) |-> num[Len(num) + 1 - i]], d, 1,
                      [q |-> <<>>, r |-> 0])
        q  == ToNat(Strip(qr.q))
    IN  IF 2 * qr.r > d \/ (2 * qr.r = d /\ tie_up) THEN q + 1 ELSE q

\* sale_price = round(car['base_price'] * (1 + price_variation), 2), in cents.
SalePrice(base_price, price_variation, tie_up) ==
    RoundDiv(MulSmall(NatLimbs(U_SCALE + price_variation), base_price, 0),
             U_SCALE \div 100, tie_up)

\* Variant: the commission cut to whole cents instead of rounded.
CommissionTruncated(sale_price, commission_rate, tie_up) ==
    ToNat(Strip(LongDiv(
        LET num == MulSmall(NatLimbs(sale_price), commission_rate, 0)
        IN  [i \in 1..Len(num) |-> num[Len(num) + 1 - i]],
        RATE_SCALE, 1, [q |-> <<>>, r |-> 0]).q))

\* commission = round(sale_price * commission_rate, 2), in cents.
Commission(sale_price, commission_rate, tie_up) ==
    RoundDiv(MulSmall(NatLimbs(sale_price), commission_rate, 0), RATE_SCALE, tie_up)

\* One iteration of the loop of generate_month_data: the record at position
\* i (0-based) built from the draws d of that iteration.  The attributes
\* drawn by random.choice from fixed lists (color, dealership, payment
\* method, salesperson, state, car_year, mileage) take no part in any
\* computation and are left out.
SampleRecord(y, m, i, customer_id_offset, sale_id_offset, d) ==
    LET sale_price == SalePrice(car_inventory[d.car], d.price_variation, d.price_tie_up)
    IN  [ sale_id     |-> FormatSaleId(sale_id_offset, i),
          sale_date   |-> FormatDate(y, m, d.day),
          customer_id |-> FormatCustomerId(customer_id_offset, i),
          car         |-> d.car,
          sale_price  |-> sale_price,
          commission  |-> Commission(sale_price, d.commission_rate, d.commission_tie_up) ]

\* generate_month_data: num_records records, position i from draws[i + 1].
generate_month_data(y, m, num_records, customer_id_offset, sale_id_offset, draws) ==
    [k \in 1..num_records |->
        SampleRecord(y, m, k - 1, customer_id_offset, sale_id_offset, draws[k])]

\* Variant: the batch written in sample order.
SortValuesUnsorted(rows) == {rows}

\* Variant: ascending=False.
SortValuesDescending(rows) ==
    LET n == Len(rows)
        perms == {p \in [1..n -> 1..n] : \A a, b \in 1..n : a # b => p[a] # p[b]}
    IN  { [k \in 1..n |-> rows[p[k]]] : p \in
            {q \in perms : \A k \in 1..(n - 1) :
                StrLeq(rows[q[k + 1]].sale_date, rows[q[k]].sale_date)} }

\* df.sort_values('sale_date').reset_index(drop=True): pandas sorts with
\* kind='quicksort' unless told otherwise, which orders the rows by the key
\* and promises nothing about rows with equal keys.  Every arrangement of
\* the rows that is non-decreasing in sale_date is a possible outcome.
SortValues(rows) ==
    LET n == Len(rows)
        perms == {p \in [1..n -> 1..n] : \A a, b \in 1..n : a # b => p[a] # p[b]}
    IN  { [k \in 1..n |-> rows[p[k]]] : p \in
            {q \in perms : \A k \in 1..(n - 1) :
                StrLeq(rows[q[k]].sale_date, rows[q[k + 1]].sale_date)} }

\* df['sale_price'].sum()
RECURSIVE SumPrice(_)
SumPrice(rows) ==
    IF rows = <<>> THEN 0 ELSE rows[1].sale_price + SumPrice(Tail(rows))

\* ------------------------------------------------------------------------
\* Record count of a month: int(BASE_RECORDS_PER_MONTH * MONTHLY_MULTIPLIERS[month])
\* ------------------------------------------------------------------------

\* The double product base * MONTHLY_MULTIPLIERS[m].  (Each intermediate
\* double is bound as a value, so that it is computed once wherever the
\* operator is evaluated.)
RecordProduct(base, m) ==
    CHOOSE p \in { MulDouble(base, x) :
                     x \in {DoubleOfHundredths(MONTHLY_MULTIPLIERS[m])} } : TRUE

\* Variant: round() in place of int().
NumRecordsRounded(base, m) ==
    CHOOSE n \in {RoundDouble(p) : p \in {RecordProduct(base, m)}} : TRUE

NumRecords(base, m) ==
    CHOOSE n \in {TruncDouble(p) : p \in {RecordProduct(base, m)}} : TRUE

\* ------------------------------------------------------------------------
\* Bounds of the model and the inputs it enumerates
\* ------------------------------------------------------------------------

\* Runs whose rows are materialised use base record counts 1..MaxBase.
MaxBase == 2

\* Years the calendar utility is applied to.
MinYear == 1890

MaxYear == 2110

\* A configuration of a run: the constants START_YEAR, END_YEAR and
\* BASE_RECORDS_PER_MONTH, and whether the model materialises the rows of
\* every batch (rows) or follows the counters and call arguments only.
ConfiguredRun ==
    [start |-> START_YEAR, end |-> END_YEAR, base |-> BASE_RECORDS_PER_MONTH, rows |-> FALSE]

\* The end-to-end scenario: one year, 2020, ten base records per month.
ScenarioRun == [start |-> 2020, end |-> 2020, base |-> 10, rows |-> FALSE]

CounterRuns == {ConfiguredRun, ScenarioRun}

\* One-year runs (a common year and a leap year) small enough to enumerate
\* every row of every batch.
RowRuns ==
    { [start |-> y, end |-> y, base |-> b, rows |-> TRUE] :
        y \in {START_YEAR, START_YEAR + 1}, b \in 1..MaxBase }

\* The draws of one record while a whole run is enumerated: the first or
\* the last day of the month, the first catalog entry at its base price,
\* the two end points of the commission rate.  (monthly_stats keeps every
\* month's revenue, so a second price per record would multiply the states
\* of a run by the number of revenue histories.)
RunDraws(y, m) ==
    [ day               : {1, get_days_in_month(y, m)},
      car               : {1},
      price_variation   : {0},
      price_tie_up      : {FALSE},
      commission_rate   : {COMMISSION_RATE_LO, COMMISSION_RATE_HI},
      commission_tie_up : {FALSE} ]

\* The draws of one record when the sampler is applied on its own: every
\* catalog entry, the end points and interior points of both uniform draws
\* (10 millionths gives an exact half cent on the 26500, 29500 and 23500
\* entries).
VariationGrid ==
    { PRICE_VARIATION_LO, PRICE_VARIATION_LO + 1, 0 - 1, 0, 1, 10, 33333,
      PRICE_VARIATION_HI - 1, PRICE_VARIATION_HI }

RateGrid ==
    { COMMISSION_RATE_LO, COMMISSION_RATE_LO + 1, 3333, COMMISSION_RATE_HI - 1,
      COMMISSION_RATE_HI }

SampleDraws(y, m) ==
    [ day               : {1, get_days_in_month(y, m)},
      car               : 1..Len(car_inventory),
      price_variation   : VariationGrid,
      price_tie_up      : BOOLEAN,
      commission_rate   : RateGrid,
      commission_tie_up : BOOLEAN ]

\* ------------------------------------------------------------------------
\* State
\* ------------------------------------------------------------------------

VARIABLES
    cfg,                 \* the configuration of the run
    pc,                  \* "loop", "report", "done"; "aborted": df.to_csv raised;
                         \* "crashed": the summary raised; "idle": no run
    year, month,         \* the loop variables of lines 181-182
    total_records,       \* line 175
    total_revenue,       \* line 176, in cents (Elided when rows are not materialised)
    customer_id_offset,  \* line 177
    sale_id_offset,      \* line 178
    monthly_stats,       \* line 179
    calls,               \* the arguments of every generate_month_data call so far
    files,               \* names of the files df.to_csv has written completely
    partial,             \* names of files a failed df.to_csv left incomplete
    last_csv,            \* the file written last: its year, month and rows
    report,              \* the figures of the summary (lines 224-252)
    fn                   \* a function applied on its own: its input and output

vars ==
    << cfg, pc, year, month, total_records, total_revenue, customer_id_offset,
       sale_id_offset, monthly_stats, calls, files, partial, last_csv, report, fn >>

run_vars ==
    << cfg, pc, year, month, total_records, total_revenue, customer_id_offset,
       sale_id_offset, monthly_stats, calls, files, partial, last_csv, report >>

Elided == "elided"

NoReport == [printed |-> FALSE]

NoFn == [op |-> "none"]

\* ------------------------------------------------------------------------
\* The driver (lines 175-252)
\* ------------------------------------------------------------------------

\* Lines 175-179 and the entry of the loops of lines 181-182.
InitRun(runs) ==
    /\ cfg \in runs
    /\ pc = IF cfg.start <= cfg.end THEN "loop" ELSE "report"
    /\ year = cfg.start
    /\ month = 1
    /\ total_records = 0
    /\ total_revenue = IF cfg.rows THEN 0 ELSE Elided
    /\ customer_id_offset = CUSTOMER_ID_START
    /\ sale_id_offset = SALE_ID_START
    /\ monthly_stats = <<>>
    /\ calls = <<>>
    /\ files = {}
    /\ partial = {}
    /\ last_csv = [year |-> 0, month |-> 0, rows |-> <<>>]
    /\ report = NoReport
    /\ fn = NoFn

\* The arguments of the call of line 187.
CallArgs(n) ==
    [ year |-> year, month |-> month, num_records |-> n,
      customer_id_offset |-> customer_id_offset, sale_id_offset |-> sale_id_offset ]

\* Variant: for month in range(1, 12).
AdvanceLoopElevenMonths ==
    IF month < 11 THEN /\ month' = month + 1
                       /\ UNCHANGED <<year, pc>>
    ELSE IF year < cfg.end THEN /\ year' = year + 1
                                /\ month' = 1
                                /\ UNCHANGED pc
    ELSE /\ pc' = "report"
         /\ UNCHANGED <<year, month>>

\* for month in range(1, 13) inside for year in range(START_YEAR, END_YEAR + 1):
\* the next iteration, or the end of both loops.
AdvanceLoop ==
    IF month < 12 THEN /\ month' = month + 1
                       /\ UNCHANGED <<year, pc>>
    ELSE IF year < cfg.end THEN /\ year' = year + 1
                                /\ month' = 1
                                /\ UNCHANGED pc
    ELSE /\ pc' = "report"
         /\ UNCHANGED <<year, month>>

\* Variant: the identifier offsets are not advanced.
UpdateCountersStaleOffsets(n, month_revenue) ==
    /\ total_records' = total_records + n
    /\ total_revenue' = IF cfg.rows THEN total_revenue + month_revenue ELSE Elided
    /\ UNCHANGED <<customer_id_offset, sale_id_offset>>
    /\ monthly_stats' = Append(monthly_stats,
            [year |-> year, month |-> month, records |-> n, revenue |-> month_revenue])

\* Lines 200-212: the counters and the statistics entry of one month.
UpdateCounters(n, month_revenue) ==
    /\ total_records' = total_records + n
    /\ total_revenue' = IF cfg.rows THEN total_revenue + month_revenue ELSE Elided
    /\ customer_id_offset' = customer_id_offset + n
    /\ sale_id_offset' = sale_id_offset + n
    /\ monthly_stats' = Append(monthly_stats,
            [year |-> year, month |-> month, records |-> n, revenue |-> month_revenue])

\* One iteration of the loop body (lines 183-217) with every row of the
\* batch: the record count, the batch, the sort, the file, the counters.
MonthStep ==
    /\ pc = "loop"
    /\ cfg.rows
    /\ LET num_records == NumRecords(cfg.base, month)
       IN  \E draws \in [1..num_records -> RunDraws(year, month)] :
             LET month_data == generate_month_data(year, month, num_records,
                                   customer_id_offset, sale_id_offset, draws)
             IN  \E df \in SortValues(month_data) :
                   /\ calls' = Append(calls, CallArgs(num_records))
                   /\ files' = files \cup {OutputFilename(year, month)}
                   /\ last_csv' = [year |-> year, month |-> month, rows |-> df]
                   /\ UpdateCounters(num_records, SumPrice(df))
    /\ AdvanceLoop
    /\ UNCHANGED <<cfg, partial, report, fn>>

\* The same iteration for a run whose batches are too large to enumerate
\* row by row: the record count, the call arguments, the file name and the
\* counters.  The identifiers of the batch are FormatCustomerId and
\* FormatSaleId of the call's offsets and the positions 0..num_records-1.
MonthStepCounters ==
    /\ pc = "loop"
    /\ ~cfg.rows
    /\ LET num_records == NumRecords(cfg.base, month)
       IN  /\ calls' = Append(calls, CallArgs(num_records))
           /\ files' = files \cup {OutputFilename(year, month)}
           /\ last_csv' = [year |-> year, month |-> month, rows |-> Elided]
           /\ UpdateCounters(num_records, Elided)
    /\ AdvanceLoop
    /\ UNCHANGED <<cfg, partial, report, fn>>

\* Variant: the exception is swallowed and the loop goes on to the next month.
PersistFailSkips ==
    /\ pc = "loop"
    /\ cfg.rows
    /\ calls' = Append(calls, CallArgs(NumRecords(cfg.base, month)))
    /\ \E incomplete \in BOOLEAN :
         partial' = IF incomplete THEN partial \cup {OutputFilename(year, month)}
                    ELSE partial
    /\ AdvanceLoop
    /\ UNCHANGED << cfg, total_records, total_revenue, customer_id_offset,
                    sale_id_offset, monthly_stats, files, last_csv, report, fn >>

\* df.to_csv raises (the output medium is exhausted or not writable): the
\* exception is not caught, the script ends at line 198.  The batch was
\* generated; the file is missing or incomplete; lines 200-217 never run.
PersistFail ==
    /\ pc = "loop"
    /\ cfg.rows
    /\ calls' = Append(calls, CallArgs(NumRecords(cfg.base, month)))
    /\ \E incomplete \in BOOLEAN :
         partial' = IF incomplete THEN partial \cup {OutputFilename(year, month)}
                    ELSE partial
    /\ pc' = "aborted"
    /\ UNCHANGED << cfg, year, month, total_records, total_revenue, customer_id_offset,
                    sale_id_offset, monthly_stats, files, last_csv, report, fn >>

RECURSIVE SumRecords(_)
SumRecords(stats) ==
    IF stats = <<>> THEN 0 ELSE stats[1].records + SumRecords(Tail(stats))

\* stats_df.groupby('year')['records'].sum()
YearlyTotals(stats) ==
    [y \in {stats[k].year : k \in 1..Len(stats)} |->
        LET OfYear(e) == e.year = y IN SumRecords(SelectSeq(stats, OfYear))]

\* quarter = (m - 1) // 3 + 1
Quarter(m) == (m - 1) \div 3 + 1

\* stats_df.groupby('quarter')['records'].sum()
QuarterlyTotals(stats) ==
    [q \in {Quarter(stats[k].month) : k \in 1..Len(stats)} |->
        LET OfQuarter(e) == Quarter(e.month) = q IN SumRecords(SelectSeq(stats, OfQuarter))]

\* Lines 219-256: the summary.  total_revenue / total_records at line 227
\* raises ZeroDivisionError when no record was generated.
Report ==
    /\ pc = "report"
    /\ IF total_records = 0
       THEN /\ pc' = "crashed"
            /\ UNCHANGED report
       ELSE /\ pc' = "done"
            /\ report' = [ printed         |-> TRUE,
                           files_generated |-> Len(monthly_stats),
                           total_records   |-> total_records,
                           yearly_totals   |-> YearlyTotals(monthly_stats),
                           quarterly_avg   |-> QuarterlyTotals(monthly_stats) ]
    /\ UNCHANGED << cfg, year, month, total_records, total_revenue, customer_id_offset,
                    sale_id_offset, monthly_stats, calls, files, partial, last_csv, fn >>

\* ------------------------------------------------------------------------
\* Functions applied on their own
\* ------------------------------------------------------------------------

NoRun ==
    /\ cfg = [start |-> 0, end |-> 0, base |-> 0, rows |-> FALSE]
    /\ pc = "idle"
    /\ year = 0
    /\ month = 0
    /\ total_records = 0
    /\ total_revenue = 0
    /\ customer_id_offset = CUSTOMER_ID_START
    /\ sale_id_offset = SALE_ID_START
    /\ monthly_stats = <<>>
    /\ calls = <<>>
    /\ files = {}
    /\ partial = {}
    /\ last_csv = [year |-> 0, month |-> 0, rows |-> <<>>]
    /\ report = NoReport

InitCalendar ==
    /\ NoRun
    /\ \E y \in MinYear..MaxYear, m \in 1..12 :
         fn = [op |-> "days", year |-> y, month |-> m, applied |-> FALSE]

ApplyDays ==
    /\ fn.op = "days"
    /\ ~fn.applied
    /\ fn' = [ op |-> "days", year |-> fn.year, month |-> fn.month, applied |-> TRUE,
               out |-> get_days_in_month(fn.year, fn.month) ]
    /\ UNCHANGED run_vars

\* One record sampled at position i of a batch of February 2015 or 2016.
InitSample ==
    /\ NoRun
    /\ \E y \in {START_YEAR, START_YEAR + 1}, i \in {0, 1} :
         \E d \in SampleDraws(y, 2) :
            fn = [op |-> "sample", year |-> y, month |-> 2, i |-> i, d |-> d,
                  applied |-> FALSE]

ApplySample ==
    /\ fn.op = "sample"
    /\ ~fn.applied
    /\ fn' = [ op |-> "sample", year |-> fn.year, month |-> fn.month, i |-> fn.i,
               d |-> fn.d, applied |-> TRUE,
               out |-> SampleRecord(fn.year, fn.month, fn.i, customer_id_offset,
                                    sale_id_offset, fn.d) ]
    /\ UNCHANGED run_vars

\* ------------------------------------------------------------------------
\* Specifications
\* ------------------------------------------------------------------------

\* Runs with every row materialised; the storage never fails.
Init == InitRun(RowRuns)

Next == MonthStep \/ Report

Spec == Init /\ [][Next]_vars

\* The same runs on a storage that may fail.
NextFail == MonthStep \/ PersistFail \/ Report

SpecFail == Init /\ [][NextFail]_vars

\* The configured run and the end-to-end scenario, followed by counters.
InitCounters == InitRun(CounterRuns)

NextCounters == MonthStepCounters \/ Report

SpecCounters == InitCounters /\ [][NextCounters]_vars

\* The script runs to its end: no step of it waits for anything.
SpecCountersLive == SpecCounters /\ WF_vars(NextCounters)

SpecCalendar == InitCalendar /\ [][ApplyDays]_vars

SpecSample == InitSample /\ [][ApplySample]_vars

\* ------------------------------------------------------------------------
\* Properties
\* ------------------------------------------------------------------------

\* The identifiers of one call, in generation order (positions 0..num_records-1).
CallIds(c) ==
    [k \in 1..c.num_records |->
        [ sale_id     |-> FormatSaleId(c.sale_id_offset, k - 1),
          customer_id |-> FormatCustomerId(c.customer_id_offset, k - 1) ]]

\* The identifiers of all calls, batch after batch, position after position.
RECURSIVE IssuedIds(_)
IssuedIds(cs) == IF cs = <<>> THEN <<>> ELSE CallIds(cs[1]) \o IssuedIds(Tail(cs))

Last(s) == s[Len(s)]

\* C1: over the whole run all sale_id values are pairwise distinct, all
\* customer_id values are pairwise distinct, and both increase strictly in
\* generation order (batch after batch, position after position).
C1_IdsUniqueIncreasing ==
    LET ids == IssuedIds(calls)
    IN  \A a, b \in 1..Len(ids) :
          a < b =>
            /\ ids[a].sale_id # ids[b].sale_id
            /\ ids[a].customer_id # ids[b].customer_id
            /\ ParseInt(ids[a].sale_id.digits) < ParseInt(ids[b].sale_id.digits)
            /\ ParseInt(ids[a].customer_id.digits) < ParseInt(ids[b].customer_id.digits)

\* A whole run of 12 batches, some of them with more than one record.
C1_Witness ==
    /\ pc = "done"
    /\ Len(calls) = 12
    /\ \E k \in 1..Len(calls) : calls[k].num_records >= 2
    /\ Len(IssuedIds(calls)) = total_records

\* C2 as stated: the record count of every month is round(base * multiplier),
\* the double product rounded to the nearest integer.
C2_RecordCountRounded ==
    \A k \in 1..Len(monthly_stats) :
        monthly_stats[k].records
            = RoundDouble(RecordProduct(cfg.base, monthly_stats[k].month))

\* C2 amended: the record count is the product truncated, never rounded up:
\* it is at most the exact product base * multiplier and at most one below
\* it (multipliers in hundredths: 0 <= base * h - 100 * records <= 100).
C2_RecordCountTruncated ==
    \A k \in 1..Len(monthly_stats) :
        LET exact100 == cfg.base * MONTHLY_MULTIPLIERS[monthly_stats[k].month]
            records  == monthly_stats[k].records
        IN  /\ 100 * records <= exact100
            /\ exact100 - 100 * records <= 100
            /\ exact100 % 100 # 0 => exact100 - 100 * records < 100

\* The configured run in April: 100000 * 1.15 is 114999.99999999999 as a
\* double and the batch has 114999 records; the scenario in January has 7.
C2_Witness ==
    /\ cfg = ConfiguredRun
    /\ Len(monthly_stats) >= 4
    /\ monthly_stats[4].records = 114999
    /\ monthly_stats[1].records = 75000

\* C3 as stated: in the scenario the January 2020 batch has exactly 7
\* records, customer_id CUST0001000000 .. CUST0001000006.
C3_ScenarioAsStated ==
    (cfg = ScenarioRun /\ Len(calls) >= 1) =>
        /\ calls[1].year = 2020 /\ calls[1].month = 1
        /\ monthly_stats[1].records = 7
        /\ [k \in 1..Len(CallIds(calls[1])) |-> CallIds(calls[1])[k].customer_id]
             = [k \in 1..7 |-> [prefix |-> "CUST",
                                digits |-> <<0, 0, 0, 1, 0, 0, 0, 0, 0, k - 1>>]]

\* C3 amended: in the scenario the January 2020 batch has exactly 7 records,
\* customer_id CUST1000000 .. CUST1000006 (seven digits after CUST), written
\* to the file of January 2020.
C3_Scenario ==
    (cfg = ScenarioRun /\ Len(calls) >= 1) =>
        /\ calls[1].year = 2020 /\ calls[1].month = 1
        /\ calls[1].customer_id_offset = 1000000
        /\ monthly_stats[1].records = 7
        /\ OutputFilename(2020, 1) \in files
        /\ [k \in 1..Len(CallIds(calls[1])) |-> CallIds(calls[1])[k].customer_id]
             = [k \in 1..7 |-> [prefix |-> "CUST",
                                digits |-> <<1, 0, 0, 0, 0, 0, k - 1>>]]

C3_Witness ==
    /\ cfg = ScenarioRun
    /\ Len(calls) = 1
    /\ month = 2
    /\ customer_id_offset = 1000007

\* C4: in the configured run every customer_id is CUST and exactly 7 digits
\* and every sale_id is SALE and exactly 8 digits: no index of the batch
\* exceeds 9999999, respectively 99999999, and the identifiers of its first
\* and last position have the width of the format (stated of the batch
\* generated last; every batch is the last one in some state).
C4_IdWidths ==
    (cfg = ConfiguredRun /\ calls # <<>> /\ Last(calls).num_records > 0) =>
        LET c == Last(calls)
        IN  /\ \A i \in 0..(c.num_records - 1) :
                 /\ c.customer_id_offset + i <= 10 ^ CUST_WIDTH - 1
                 /\ c.sale_id_offset + i <= 10 ^ SALE_WIDTH - 1
            /\ \A i \in {0, c.num_records - 1} :
                 /\ Len(FormatCustomerId(c.customer_id_offset, i).digits) = CUST_WIDTH
                 /\ Len(FormatSaleId(c.sale_id_offset, i).digits) = SALE_WIDTH

\* C5: in every file as written the sale_date values are non-decreasing
\* from row to row, and every sale_date is a day of the file's year and
\* month: YYYY-MM-DD with the day in 1..get_days_in_month.
C5_SortedInMonth ==
    cfg.rows =>
        LET rows == last_csv.rows
        IN  /\ \A k \in 1..(Len(rows) - 1) : StrLeq(rows[k].sale_date, rows[k + 1].sale_date)
            /\ \A k \in 1..Len(rows) :
                 LET s == rows[k].sale_date
                 IN  /\ Len(s) = 10
                     /\ s[5] = DASH /\ s[8] = DASH
                     /\ ParseInt(SubSeq(s, 1, 4)) = last_csv.year
                     /\ ParseInt(SubSeq(s, 6, 7)) = last_csv.month
                     /\ ParseInt(SubSeq(s, 9, 10))
                            \in 1..get_days_in_month(last_csv.year, last_csv.month)

\* A file whose first row was sampled after its second row (the sort moved
\* it) and carries an earlier date, in an April (a 30-day month).
C5_Witness ==
    /\ cfg.rows
    /\ last_csv.month = 4
    /\ Len(last_csv.rows) >= 2
    /\ ParseInt(last_csv.rows[1].sale_id.digits) > ParseInt(last_csv.rows[2].sale_id.digits)
    /\ last_csv.rows[1].sale_date # last_csv.rows[2].sale_date

\* C6: get_days_in_month is the Gregorian length of the month: 31 for
\* months 1,3,5,7,8,10,12; 30 for 4,6,9,11; for February 29 iff the year
\* is divisible by 4 and (not by 100, or by 400), otherwise 28; in
\* particular 2000 -> 29, 1900 -> 28, 2024 -> 29, 2023 -> 28.
C6_DaysInMonth ==
    (fn.op = "days" /\ fn.applied) =>
        /\ fn.month \in {1, 3, 5, 7, 8, 10, 12} => fn.out = 31
        /\ fn.month \in {4, 6, 9, 11} => fn.out = 30
        /\ fn.month = 2 =>
             /\ fn.out \in {28, 29}
             /\ fn.out = 29 <=>
                  (fn.year % 4 = 0 /\ (fn.year % 100 # 0 \/ fn.year % 400 = 0))
             /\ fn.year \in {2000, 2024} => fn.out = 29
             /\ fn.year \in {1900, 2023} => fn.out = 28

C6_Witness ==
    /\ fn.op = "days" /\ fn.applied
    /\ fn.year = 2000 /\ fn.month = 2 /\ fn.out = 29

\* C7 as stated: with both values rounded to cents,
\* 0.95 * base_price <= sale_price <= 1.15 * base_price and
\* 0.02 * sale_price <= commission <= 0.05 * sale_price (amounts in cents).
C7_BoundsExact ==
    (fn.op = "sample" /\ fn.applied) =>
        LET base_price == car_inventory[fn.d.car]
            r == fn.out
        IN  /\ 95 * base_price <= r.sale_price
            /\ r.sale_price <= 115 * base_price
            /\ r.sale_price <= 50 * r.commission
            /\ 20 * r.commission <= r.sale_price

\* C7 amended: 0.95 * base_price <= sale_price <= 1.15 * base_price, and the
\* commission is within half a cent of the band:
\* 0.02 * sale_price - 0.005 <= commission <= 0.05 * sale_price + 0.005.
C7_BoundsToHalfCent ==
    (fn.op = "sample" /\ fn.applied) =>
        LET base_price == car_inventory[fn.d.car]
            r == fn.out
        IN  /\ 95 * base_price <= r.sale_price
            /\ r.sale_price <= 115 * base_price
            /\ 2 * r.sale_price - 50 <= 100 * r.commission
            /\ 100 * r.commission <= 5 * r.sale_price + 50

\* A record at the lowest rate whose commission was rounded down below
\* 2% of its sale price.
C7_Witness ==
    /\ fn.op = "sample" /\ fn.applied
    /\ fn.d.commission_rate = COMMISSION_RATE_LO
    /\ 50 * fn.out.commission < fn.out.sale_price

RECURSIVE SumRevenue(_)
SumRevenue(stats) ==
    IF stats = <<>> THEN 0 ELSE stats[1].revenue + SumRevenue(Tail(stats))

\* C8: a failed df.to_csv aborts the run at that month instead of skipping
\* it.  Every month generated before the one being written has its file and
\* its statistics entry; once the run is aborted the failed month has
\* neither, the counters and totals stand where its batch started, the
\* files are exactly those of the earlier months, and no step follows.
C8_AbortNotSkip ==
    LET done == IF pc = "aborted" THEN Len(calls) - 1 ELSE Len(calls)
    IN  /\ Len(monthly_stats) = done
        /\ \A k \in 1..done :
             /\ OutputFilename(calls[k].year, calls[k].month) \in files
             /\ monthly_stats[k].year = calls[k].year
             /\ monthly_stats[k].month = calls[k].month
        /\ total_records = SumRecords(monthly_stats)
        /\ pc = "aborted" =>
             LET c == Last(calls)
             IN  /\ c.year = year /\ c.month = month
                 /\ OutputFilename(year, month) \notin files
                 /\ files = {OutputFilename(calls[k].year, calls[k].month) : k \in 1..done}
                 /\ customer_id_offset = c.customer_id_offset
                 /\ sale_id_offset = c.sale_id_offset
                 /\ customer_id_offset = CUSTOMER_ID_START + total_records
                 /\ total_revenue = SumRevenue(monthly_stats)
                 /\ ~ENABLED NextFail

\* A run aborted after some months were written, the failed file left
\* incomplete on the disk.
C8_Witness ==
    /\ pc = "aborted"
    /\ Len(monthly_stats) >= 2
    /\ partial = {OutputFilename(year, month)}
    /\ Cardinality(files) = Len(monthly_stats)

RECURSIVE SumOver(_, _)
SumOver(f, S) ==
    IF S = {} THEN 0 ELSE LET x == CHOOSE x \in S : TRUE IN f[x] + SumOver(f, S \ {x})

\* The part of C9 that holds in every state: one statistics entry per
\* (year, month) pair processed, in ascending order from (START_YEAR, 1),
\* with the record count of that batch; total_records is the sum of the
\* records appended so far; at the end there are 12 * (END_YEAR -
\* START_YEAR + 1) entries and the per-year and the per-quarter totals of
\* the summary each sum to total_records.
C9_Stats ==
    /\ Len(calls) = Len(monthly_stats)
    /\ \A k \in 1..Len(monthly_stats) :
         /\ monthly_stats[k].year = cfg.start + (k - 1) \div 12
         /\ monthly_stats[k].month = ((k - 1) % 12) + 1
         /\ monthly_stats[k].records = calls[k].num_records
         /\ calls[k].year = monthly_stats[k].year
         /\ calls[k].month = monthly_stats[k].month
    /\ total_records = SumRecords(monthly_stats)
    /\ pc \in {"report", "done"} => Len(monthly_stats) = 12 * (cfg.end - cfg.start + 1)
    /\ pc = "done" =>
         /\ report.files_generated = 12 * (cfg.end - cfg.start + 1)
         /\ DOMAIN report.yearly_totals = cfg.start..cfg.end
         /\ DOMAIN report.quarterly_avg = 1..4
         /\ SumOver(report.yearly_totals, DOMAIN report.yearly_totals) = total_records
         /\ SumOver(report.quarterly_avg, DOMAIN report.quarterly_avg) = total_records
         /\ \A q \in 1..4 :
              report.quarterly_avg[q]
                = SumRecords(SelectSeq(monthly_stats,
                      LAMBDA e : e.month \in (3 * q - 2)..(3 * q)))

\* C9: the loop processes every (year, month) pair exactly once in
\* ascending order and terminates, with the statistics of C9_Stats.
C9_LoopCompletes == [](C9_Stats) /\ <>(pc = "done")

\* The configured run at its end: 120 entries.
C9_Witness ==
    /\ cfg = ConfiguredRun
    /\ pc = "done"
    /\ Len(monthly_stats) = 120
    /\ report.yearly_totals[START_YEAR] = 1289999

\* C10 as stated: the sort is stable: two rows of a file with equal
\* sale_date appear in their sample order, the smaller sale_id first.
C10_SortStable ==
    cfg.rows =>
        LET rows == last_csv.rows
        IN  \A a, b \in 1..Len(rows) :
              (a < b /\ rows[a].sale_date = rows[b].sale_date) =>
                  ParseInt(rows[a].sale_id.digits) < ParseInt(rows[b].sale_id.digits)

\* C10 amended: the file holds every record of the batch exactly once, a
\* row with an earlier sale_date always before a row with a later one; the
\* order of rows with equal sale_date is not fixed by the sort.
C10_SortPermutes ==
    (cfg.rows /\ calls # <<>> /\ pc # "aborted") =>
        LET rows == last_csv.rows
            ids  == CallIds(Last(calls))
        IN  /\ Len(rows) = Len(ids)
            /\ \A k \in 1..Len(ids) :
                 Cardinality({j \in 1..Len(rows) :
                     /\ rows[j].sale_id = ids[k].sale_id
                     /\ rows[j].customer_id = ids[k].customer_id}) = 1
            /\ \A a, b \in 1..Len(rows) :
                 (rows[a].sale_date # rows[b].sale_date
                    /\ StrLeq(rows[a].sale_date, rows[b].sale_date)) => a < b

\* A file in which two rows of the same day stand against their sample
\* order.
C10_Witness ==
    /\ cfg.rows
    /\ Len(last_csv.rows) >= 2
    /\ last_csv.rows[1].sale_date = last_csv.rows[2].sale_date
    /\ ParseInt(last_csv.rows[1].sale_id.digits) > ParseInt(last_csv.rows[2].sale_id.digits)
====
